---------------------------- MODULE Spec2Model ----------------------------
(***************************************************************************)
(* Model of the quote server (src/server.js): the loaded quote corpus, the *)
(* served-quote trackers and the request handlers that read and change     *)
(* them.  Node runs every handler to completion on one thread (the         *)
(* handlers are synchronous, saveStats uses writeFileSync), so a handler   *)
(* is one action.  The request counters of stats.json are not part of the  *)
(* sampler state and are left out.                                         *)
(*                                                                         *)
(* Strings that the code converts (book names, slugs, the :id parameter)   *)
(* are sequences of one-character strings.                                 *)
(*                                                                         *)
(* Spec is the server: one action per route handler.  Four further         *)
(* specifications follow parts of the program more closely:                *)
(*   BuildSpec      processAllPDFs of scripts/extract.js file by file,     *)
(*                  then loadQuotesDatabase on the file it saved;          *)
(*   TextSpec       cleanText and extractSentences on one text;            *)
(*   EventLoopSpec  GET /quote and POST /reset statement by statement      *)
(*                  while other requests wait;                             *)
(*   LoopSpec       one sampler call, a step per round of its retry loop   *)
(*                  (LoopLive adds that the call keeps taking steps).      *)
(* Each leaves the variables of the others at their initial values.        *)
(***************************************************************************)
EXTENDS Integers, Sequences, FiniteSets, TLC

\* ------------------------------------------------------------------ bounds
MaxQuotes == 3

\* ------------------------------------------------------- program constants
maxAttempts == 100

\* --------------------------------------------------------------- alphabet
UpperCase == {"A", "B", "C"}
LowerCase == {"a", "b", "c", "d", "f", "p", "x", "z"}
Digits == {"0", "1", "2", "3", "4", "5", "6", "7", "8", "9"}
WhiteSpace == {" "}
\* \w of a JavaScript regular expression
WordChars == UpperCase \cup LowerCase \cup Digits \cup {"_"}

toLowerCase(s) ==
  [i \in 1..Len(s) |->
     CASE s[i] = "A" -> "a"
       [] s[i] = "B" -> "b"
       [] s[i] = "C" -> "c"
       [] OTHER -> s[i]]

\* s.replace(/\.pdf$/, '')
StripPdfSuffix(s) ==
  IF Len(s) >= 4 /\ SubSeq(s, Len(s) - 3, Len(s)) = <<".", "p", "d", "f">>
    THEN SubSeq(s, 1, Len(s) - 4)
    ELSE s

\* s.replace(/[^\w\s-]/g, '')
IsSlugChar(c) == c \in WordChars \cup WhiteSpace \cup {"-"}

StripNonSlugChars(s) == SelectSeq(s, IsSlugChar)

\* s.replace(/<class>+/g, '-'): every maximal run of characters of the
\* class becomes one hyphen
RECURSIVE ReplaceRuns(_, _)
ReplaceRuns(s, class) ==
  IF s = <<>> THEN <<>>
  ELSE IF Head(s) \in class
    THEN IF Len(s) >= 2 /\ s[2] \in class
           THEN ReplaceRuns(Tail(s), class)
           ELSE <<"-">> \o ReplaceRuns(Tail(s), class)
    ELSE <<Head(s)>> \o ReplaceRuns(Tail(s), class)

\* s.replace(/_/g, '-')
ReplaceUnderscores(s) == [i \in 1..Len(s) |-> IF s[i] = "_" THEN "-" ELSE s[i]]

\* String.prototype.trim
RECURSIVE TrimLeft(_)
TrimLeft(s) ==
  IF s # <<>> /\ Head(s) \in WhiteSpace THEN TrimLeft(Tail(s)) ELSE s

RECURSIVE TrimRight(_)
TrimRight(s) ==
  IF s # <<>> /\ s[Len(s)] \in WhiteSpace
    THEN TrimRight(SubSeq(s, 1, Len(s) - 1))
    ELSE s

trim(s) == TrimLeft(TrimRight(s))

bookNameToSlug(bookName) ==
  trim(ReplaceRuns(
         ReplaceUnderscores(
           ReplaceRuns(
             StripNonSlugChars(StripPdfSuffix(toLowerCase(bookName))),
             WhiteSpace)),
         {"-"}))

\* parseInt(s): optional white space, optional sign, the longest prefix of
\* decimal digits; NaN when there is no digit
NaN == -999

DigitValue(c) ==
  CASE c = "0" -> 0 [] c = "1" -> 1 [] c = "2" -> 2 [] c = "3" -> 3
    [] c = "4" -> 4 [] c = "5" -> 5 [] c = "6" -> 6 [] c = "7" -> 7
    [] c = "8" -> 8 [] c = "9" -> 9

RECURSIVE ParseDigits(_, _)
ParseDigits(s, acc) ==
  IF s = <<>> \/ Head(s) \notin Digits THEN acc
  ELSE ParseDigits(Tail(s), 10 * acc + DigitValue(Head(s)))

parseInt(str) ==
  LET s == TrimLeft(str)
      neg == s # <<>> /\ Head(s) = "-"
      body == IF s # <<>> /\ Head(s) \in {"-", "+"} THEN Tail(s) ELSE s
  IN IF body = <<>> \/ Head(body) \notin Digits THEN NaN
     ELSE IF neg THEN 0 - ParseDigits(body, 0) ELSE ParseDigits(body, 0)

isNaN(n) == n = NaN

\* ------------------------------------------------------------------- text
\* A text of the extractor is a sequence of runs, [ch |-> c, n |-> k] for
\* k >= 1 times the character c, in which neighbouring runs have different
\* characters.  A character outside ASCII is named by its code point.
MIN_LINE_LENGTH == 50

MAX_LINE_LENGTH == 50000

Run(c, k) == [ch |-> c, n |-> k]

\* \n, and \s of a JavaScript regular expression
LineBreaks == {"\n"}

TextSpace == WhiteSpace \cup LineBreaks

\* U+0964 is the danda, U+00E9 a Latin letter outside ASCII
Devanagari == {"U+0964"}

Printable == {"a", "b", " ", "."}

\* the characters [\u0900-\u097F\u0020-\u007E] and the two dandas
KeptChars == Devanagari \cup Printable

\* the danda, the double danda and the period
Delimiters == {"U+0964", "."}

\* the same string with neighbouring runs of one character joined
RECURSIVE Canon(_)
Canon(t) ==
  IF Len(t) < 2 THEN t
  ELSE IF t[1].ch = t[2].ch
    THEN Canon(<<Run(t[1].ch, t[1].n + t[2].n)>> \o SubSeq(t, 3, Len(t)))
    ELSE <<t[1]>> \o Canon(Tail(t))

\* String.prototype.length
RECURSIVE TextLength(_)
TextLength(t) == IF t = <<>> THEN 0 ELSE Head(t).n + TextLength(Tail(t))

\* String.prototype.trim
RECURSIVE TextTrimLeft(_)
TextTrimLeft(t) ==
  IF t # <<>> /\ Head(t).ch \in TextSpace THEN TextTrimLeft(Tail(t)) ELSE t

RECURSIVE TextTrimRight(_)
TextTrimRight(t) ==
  IF t # <<>> /\ t[Len(t)].ch \in TextSpace
    THEN TextTrimRight(SubSeq(t, 1, Len(t) - 1))
    ELSE t

TextTrim(t) == TextTrimLeft(TextTrimRight(t))

\* t.replace(/<class>+/g, ' '): every maximal stretch of characters of the
\* class becomes one space
RECURSIVE SpaceForRuns(_, _)
SpaceForRuns(t, class) ==
  IF t = <<>> THEN <<>>
  ELSE IF Head(t).ch \in class
    THEN IF Len(t) >= 2 /\ t[2].ch \in class
           THEN SpaceForRuns(Tail(t), class)
           ELSE <<Run(" ", 1)>> \o SpaceForRuns(Tail(t), class)
    ELSE <<Head(t)>> \o SpaceForRuns(Tail(t), class)

IsKept(r) == r.ch \in KeptChars

\* t.replace(/[^...]/g, '') with the kept characters in the brackets
KeepChars(t) == Canon(SelectSeq(t, IsKept))

cleanText(t) ==
  TextTrim(
    KeepChars(
      Canon(SpaceForRuns(
        Canon(SpaceForRuns(TextTrim(t), TextSpace)),
        LineBreaks))))

\* t.split(/<delimiters>+/): the pieces between the stretches of delimiters; a
\* stretch at the start or the end leaves an empty piece there
RECURSIVE SkipDelimiters(_)
SkipDelimiters(t) ==
  IF t # <<>> /\ Head(t).ch \in Delimiters THEN SkipDelimiters(Tail(t)) ELSE t

RECURSIVE SplitSentences(_, _)
SplitSentences(t, piece) ==
  IF t = <<>> THEN <<piece>>
  ELSE IF Head(t).ch \in Delimiters
    THEN <<piece>> \o SplitSentences(SkipDelimiters(t), <<>>)
    ELSE SplitSentences(Tail(t), Append(piece, Head(t)))

HasLineLength(s) ==
  TextLength(s) >= MIN_LINE_LENGTH /\ TextLength(s) <= MAX_LINE_LENGTH

HasText(s) == TextLength(TextTrim(s)) > 0

\* the segmenter returning its fragments last first
extractSentences_Reversed(t) ==
  LET pieces == SplitSentences(t, <<>>)
      kept == SelectSeq(
                SelectSeq([i \in 1..Len(pieces) |-> cleanText(pieces[i])],
                          HasLineLength),
                HasText)
  IN [i \in 1..Len(kept) |-> kept[Len(kept) + 1 - i]]

extractSentences(t) ==
  LET pieces == SplitSentences(t, <<>>)
  IN SelectSeq(
       SelectSeq([i \in 1..Len(pieces) |-> cleanText(pieces[i])],
                 HasLineLength),
       HasText)

\* ----------------------------------------------------------------- corpus
\* The books directory as fs.readdirSync lists it, already without the
\* ".pdf" extension that processAllPDFs strips with path.basename.
BooksDir == << <<"A", " ", "b">>,
               <<"a", "_", "b">>,
               <<"c", "!", ".", "p", "d", "f">> >>

\* bookNameToSlug is a pure function of the name: its value for every book
\* of the directory, tabulated
SlugOf == [i \in 1..Len(BooksDir) |-> bookNameToSlug(BooksDir[i])]

Slug(bookName) ==
  SlugOf[CHOOSE i \in 1..Len(BooksDir) : BooksDir[i] = bookName]

\* A quote of the older single-book extractor has no book field; it and the
\* empty string are both falsy, which is all the server asks of them.
NoBook == <<>>

NoQuote == [id |-> -1, book |-> NoBook, page |-> 0]

\* quotes_database.json as processAllPDFs writes it: the quotes of each
\* book in directory order, one counter for the ids.  counts[b] is the
\* number of quotes book b yielded (one quote per page here).
RECURSIVE BuildCorpus(_, _, _)
BuildCorpus(counts, b, quoteId) ==
  IF b > Len(BooksDir) THEN <<>>
  ELSE [p \in 1..counts[b] |->
          [id |-> quoteId + p - 1, book |-> BooksDir[b], page |-> p]]
       \o BuildCorpus(counts, b + 1, quoteId + counts[b])

RECURSIVE SumCounts(_, _)
SumCounts(counts, b) ==
  IF b > Len(BooksDir) THEN 0 ELSE counts[b] + SumCounts(counts, b + 1)

\* the database of the single-book extractor: ids 0..n-1, no book field
SingleBookCorpus(n) ==
  [p \in 1..n |-> [id |-> p - 1, book |-> NoBook, page |-> p]]

\* loadQuotesDatabase exits on an empty array, so a served corpus has at
\* least one quote
Corpora ==
  {BuildCorpus(counts, 1, 0) :
     counts \in {c \in [1..Len(BooksDir) -> 0..MaxQuotes] :
                   SumCounts(c, 1) \in 1..MaxQuotes}}
  \cup {SingleBookCorpus(n) : n \in 1..MaxQuotes}

\* [...new Set(quotes.map(q => q.book))]: the distinct books in the order
\* of their first quote
RECURSIVE UniqueBooks(_, _)
UniqueBooks(quotes, seen) ==
  IF quotes = <<>> THEN <<>>
  ELSE IF Head(quotes).book \in seen
    THEN UniqueBooks(Tail(quotes), seen)
    ELSE <<Head(quotes).book>>
         \o UniqueBooks(Tail(quotes), seen \cup {Head(quotes).book})

\* Boolean(book): false for undefined and for the empty string
Truthy(book) == book # NoBook

\* the book list taken from the quotes after the first
ExtractBooksList_SkipFirst(quotes) ==
  SelectSeq(UniqueBooks(Tail(quotes), {}), Truthy)

ExtractBooksList(quotes) == SelectSeq(UniqueBooks(quotes, {}), Truthy)

\* ------------------------------------------------------------------ state
VARIABLES
  quotesDatabase,      \* the loaded corpus, a sequence of quotes
  booksList,           \* the distinct book names of the corpus
  servedQuotes,        \* ids served by unique draws over all books
  servedQuotesByBook,  \* book name -> ids served from it; a key is
                       \* created by the first draw on that book
  resp,                \* the request last handled and its response
  pdfFiles,            \* the builder's sources, in directory order
  allQuotes,           \* the quotes the builder has collected
  nextQuoteId,         \* the builder's id counter, quoteId
  builder,             \* where processAllPDFs and the server start-up are
  text,                \* a text given to cleanText and extractSentences
  cleanings,           \* cleanText(text), cleanText of that, ...
  sentences,           \* <<extractSentences(text)>> once it was called
  inflight,            \* requests received and not yet handled
  running,             \* the handlers on the call stack, newest first
  call                 \* a sampler call run pick by pick

serverVars ==
  <<quotesDatabase, booksList, servedQuotes, servedQuotesByBook, resp>>

builderVars == <<pdfFiles, allQuotes, nextQuoteId, builder>>

textVars == <<text, cleanings, sentences>>

eventLoopVars == <<inflight, running>>

vars == <<serverVars, builderVars, textVars, eventLoopVars, call>>

\* what the request handlers of Spec leave alone
otherVars == <<builderVars, textVars, eventLoopVars, call>>

\* processAllPDFs has not started
IdleBuilder == [pc |-> "idle", done |-> 0]

\* no sampler call is being followed pick by pick
NoCall ==
  [fn |-> "none", bookName |-> NoBook, avoidRepeat |-> FALSE, pool |-> <<>>,
   pc |-> "idle", quote |-> NoQuote, attempts |-> 0, misses |-> 0,
   firstFresh |-> NoQuote]

Range(s) == {s[i] : i \in 1..Len(s)}

Ids(quotes) == {quotes[i].id : i \in 1..Len(quotes)}

\* quotesDatabase.filter(q => q.book === bookName)
BookQuotes(bookName) ==
  SelectSeq(quotesDatabase, LAMBDA q : q.book = bookName)

\* booksList.find(book => bookNameToSlug(book) === slug)
RECURSIVE FindBookIn(_, _)
FindBookIn(books, slug) ==
  IF books = <<>> THEN NoBook
  ELSE IF Slug(Head(books)) = slug THEN Head(books)
  ELSE FindBookIn(Tail(books), slug)

FindBook(slug) == FindBookIn(booksList, slug)

\* the lookup comparing the wrong field
RECURSIVE FindQuoteIn_ByPage(_, _)
FindQuoteIn_ByPage(quotes, quoteId) ==
  IF quotes = <<>> THEN NoQuote
  ELSE IF Head(quotes).page = quoteId THEN Head(quotes)
  ELSE FindQuoteIn_ByPage(Tail(quotes), quoteId)

\* quotesDatabase.find(q => q.id === quoteId)
RECURSIVE FindQuoteIn(_, _)
FindQuoteIn(quotes, quoteId) ==
  IF quotes = <<>> THEN NoQuote
  ELSE IF Head(quotes).id = quoteId THEN Head(quotes)
  ELSE FindQuoteIn(Tail(quotes), quoteId)

FindQuote(quoteId) == FindQuoteIn(quotesDatabase, quoteId)

\* servedQuotesByBook[bookName] || new Set()
ServedIn(byBook, bookName) ==
  IF bookName \in DOMAIN byBook THEN byBook[bookName] ELSE {}

ServedOf(bookName) == ServedIn(servedQuotesByBook, bookName)

\* ------------------------------------------------------------- the sampler
\* The do/while loop of getRandomQuote and getRandomQuoteFromBook.  Every
\* pick is an index Math.floor(Math.random() * pool.length) in
\* 0..pool.length-1.  The loop goes round again only when avoidRepeat is
\* set, the pick is served and fewer than maxAttempts picks were made, so
\* it ends at pick number n with quote q exactly when the n-1 picks before
\* it were all served ones and q is unserved or n is the last attempt.
\* The loop tells pick numbers apart only by "first or later" and "last
\* attempt or earlier", so these four stand for 1..maxAttempts.
AttemptCounts == {1, 2, maxAttempts - 1, maxAttempts}

\* the loop with the served test of its break inverted
RetryLoop_BreakOnServed(pool, served, avoidRepeat) ==
  {o \in [quote : Range(pool), attempts : AttemptCounts] :
     /\ o.attempts > 1 =>
          avoidRepeat /\ \E i \in 1..Len(pool) : pool[i].id \notin served
     /\ \/ ~avoidRepeat
        \/ o.quote.id \in served
        \/ o.attempts >= maxAttempts}

RetryLoop(pool, served, avoidRepeat) ==
  {o \in [quote : Range(pool), attempts : AttemptCounts] :
     /\ o.attempts > 1 =>
          avoidRepeat /\ \E i \in 1..Len(pool) : pool[i].id \in served
     /\ \/ ~avoidRepeat
        \/ o.quote.id \notin served
        \/ o.attempts >= maxAttempts}

\* the draw with > for >= in the rollover test
DrawResults_StrictRollover(pool, served, avoidRepeat) ==
  LET rollover == avoidRepeat /\ Cardinality(served) > Len(pool)
      before == IF rollover THEN {} ELSE served
  IN {[quote |-> o.quote,
       attempts |-> o.attempts,
       rollover |-> rollover,
       served |-> IF avoidRepeat THEN before \cup {o.quote.id} ELSE before] :
        o \in RetryLoop(pool, before, avoidRepeat)}

\* the draw without the avoidRepeat test around the insert
DrawResults_AlwaysInsert(pool, served, avoidRepeat) ==
  LET rollover == avoidRepeat /\ Cardinality(served) >= Len(pool)
      before == IF rollover THEN {} ELSE served
  IN {[quote |-> o.quote,
       attempts |-> o.attempts,
       rollover |-> rollover,
       served |-> before \cup {o.quote.id}] :
        o \in RetryLoop(pool, before, avoidRepeat)}

\* the draw inserting the page of the quote for its id
DrawResults_InsertPage(pool, served, avoidRepeat) ==
  LET rollover == avoidRepeat /\ Cardinality(served) >= Len(pool)
      before == IF rollover THEN {} ELSE served
  IN {[quote |-> o.quote,
       attempts |-> o.attempts,
       rollover |-> rollover,
       served |-> IF avoidRepeat THEN before \cup {o.quote.page}
                  ELSE before] :
        o \in RetryLoop(pool, before, avoidRepeat)}

\* What a draw leaves behind: the quote, the number of picks, whether the
\* served-set was cleared first (the handler logs it), and the served-set
\* after it.
DrawResults(pool, served, avoidRepeat) ==
  LET rollover == avoidRepeat /\ Cardinality(served) >= Len(pool)
      before == IF rollover THEN {} ELSE served
  IN {[quote |-> o.quote,
       attempts |-> o.attempts,
       rollover |-> rollover,
       served |-> IF avoidRepeat THEN before \cup {o.quote.id} ELSE before] :
        o \in RetryLoop(pool, before, avoidRepeat)}

\* return null
NullDraw(served) ==
  [quote |-> NoQuote, attempts |-> 0, rollover |-> FALSE, served |-> served]

getRandomQuote(avoidRepeat) ==
  IF Len(quotesDatabase) = 0 THEN {NullDraw(servedQuotes)}
  ELSE DrawResults(quotesDatabase, servedQuotes, avoidRepeat)

\* the book draw without the filter on q.book
getRandomQuoteFromBook_Unfiltered(bookName, avoidRepeat) ==
  DrawResults(quotesDatabase, ServedOf(bookName), avoidRepeat)

getRandomQuoteFromBook(bookName, avoidRepeat) ==
  IF Len(BookQuotes(bookName)) = 0 THEN {NullDraw(ServedOf(bookName))}
  ELSE DrawResults(BookQuotes(bookName), ServedOf(bookName), avoidRepeat)

\* servedQuotesByBook after getRandomQuoteFromBook: the key of the book
\* exists from its first draw on, and only its set is written
SetServed_OneSetForAll(bookName, served) ==
  [b \in DOMAIN servedQuotesByBook \cup {bookName} |-> served]

SetServed(bookName, served) ==
  [b \in DOMAIN servedQuotesByBook \cup {bookName} |->
     IF b = bookName THEN served ELSE servedQuotesByBook[b]]

\* the reset of one book clearing the tracker of every book
ClearBook_EveryBook(bookName) ==
  [b \in DOMAIN servedQuotesByBook |-> {}]

\* if (servedQuotesByBook[bookName]) servedQuotesByBook[bookName].clear()
ClearBook(bookName) ==
  IF bookName \in DOMAIN servedQuotesByBook
    THEN [servedQuotesByBook EXCEPT ![bookName] = {}]
    ELSE servedQuotesByBook

\* the reset of all trackers without the loop over the books
ClearAllBooks_Skipped == servedQuotesByBook

\* Object.keys(servedQuotesByBook).forEach(book => ...clear())
ClearAllBooks == [b \in DOMAIN servedQuotesByBook |-> {}]

\* -------------------------------------------------------------- responses
NoStats == [total_quotes |-> -1, total_books |-> -1,
            served_quotes_overall |-> -1, remaining_quotes_overall |-> -1,
            books |-> <<>>]

\* A handled request: the route, what the handler read from the request
\* (avoidRepeat, the slug after toLowerCase, the id after parseInt) and the
\* response (status, the error field, the quote or the statistics sent).
\* Two things a draw does not send are recorded with it: attempts, the
\* number of picks it made, and rollover, whether it logged the clearing
\* of a full served-set.
Response(route, status, error) ==
  [route |-> route, status |-> status, error |-> error,
   avoidRepeat |-> FALSE, bookSlug |-> NoBook, quoteId |-> NaN,
   quote |-> NoQuote, book |-> NoBook, attempts |-> 0, rollover |-> FALSE,
   stats |-> NoStats]

\* the body of GET /stats
StatsBody ==
  [total_quotes |-> Len(quotesDatabase),
   total_books |-> Len(booksList),
   served_quotes_overall |-> Cardinality(servedQuotes),
   remaining_quotes_overall |->
     Len(quotesDatabase) - Cardinality(servedQuotes),
   books |-> [i \in 1..Len(booksList) |->
                [name |-> booksList[i],
                 slug |-> Slug(booksList[i]),
                 total_quotes |-> Len(BookQuotes(booksList[i])),
                 served_quotes |-> Cardinality(ServedOf(booksList[i]))]]]

\* ---------------------------------------------------------------- requests
\* ?unique=
UniqueParams == {"true", "false"}

\* :bookSlug and ?book=
SlugParams == { <<"a", "-", "b">>, <<"C">>, <<"z">> }

\* ?book= left out or empty
NoParam == <<>>

\* :id
IdParams == { <<"0">>, <<"1", "x">>, <<"4">>, <<"-", "1">>, <<"x">> }

\* a request as the event loop holds it before its handler runs: GET /quote
\* with its unique parameter, or POST /reset without a book
Requests ==
  [route : {"GET /quote"}, unique : UniqueParams]
    \cup [route : {"POST /reset"}, unique : {""}]

\* no request is waiting
NoRequests == [r \in Requests |-> 0]

\* ------------------------------------------------------------------- Init
\* the state after loadQuotesDatabase
Init ==
  /\ quotesDatabase \in Corpora
  /\ booksList = ExtractBooksList(quotesDatabase)
  /\ servedQuotes = {}
  /\ servedQuotesByBook = <<>>
  /\ resp = Response("none", 0, "")
  /\ pdfFiles = <<>>
  /\ allQuotes = <<>>
  /\ nextQuoteId = 0
  /\ builder = IdleBuilder
  /\ text = <<>>
  /\ cleanings = <<>>
  /\ sentences = <<>>
  /\ inflight = NoRequests
  /\ running = <<>>
  /\ call = NoCall

\* ------------------------------------------------------------------ routes
\* GET /quote
GetQuote(unique) ==
  LET avoidRepeat == unique = "true"
  IN /\ \E r \in getRandomQuote(avoidRepeat) :
          /\ servedQuotes' = r.served
          /\ resp' =
               IF r.quote = NoQuote
                 THEN [Response("GET /quote", 500, "No quotes available")
                         EXCEPT !.avoidRepeat = avoidRepeat]
                 ELSE [Response("GET /quote", 200, "") EXCEPT
                         !.avoidRepeat = avoidRepeat, !.quote = r.quote,
                         !.attempts = r.attempts, !.rollover = r.rollover]
     /\ UNCHANGED <<otherVars, quotesDatabase, booksList, servedQuotesByBook>>

\* the book draw clearing every book's served-set before it answers an
\* unknown slug
GetQuoteByBook_ClearOnMiss(slugParam, unique) ==
  LET bookSlug == toLowerCase(slugParam)
      avoidRepeat == unique = "true"
      bookName == FindBook(bookSlug)
      route == "GET /quote/book/:bookSlug"
  IN IF bookName = NoBook
       THEN /\ resp' = [Response(route, 404, "Book not found") EXCEPT
                          !.avoidRepeat = avoidRepeat, !.bookSlug = bookSlug]
            /\ servedQuotesByBook' = ClearAllBooks
            /\ UNCHANGED <<otherVars, quotesDatabase, booksList, servedQuotes>>
       ELSE /\ \E r \in getRandomQuoteFromBook(bookName, avoidRepeat) :
                 /\ servedQuotesByBook' =
                      IF r.quote = NoQuote THEN servedQuotesByBook
                      ELSE SetServed(bookName, r.served)
                 /\ resp' =
                      IF r.quote = NoQuote
                        THEN [Response(route, 500,
                                       "No quotes available for book")
                                EXCEPT !.avoidRepeat = avoidRepeat,
                                       !.bookSlug = bookSlug,
                                       !.book = bookName]
                        ELSE [Response(route, 200, "") EXCEPT
                                !.avoidRepeat = avoidRepeat,
                                !.bookSlug = bookSlug,
                                !.book = bookName,
                                !.quote = r.quote,
                                !.attempts = r.attempts,
                                !.rollover = r.rollover]
            /\ UNCHANGED <<otherVars, quotesDatabase, booksList, servedQuotes>>

\* GET /quote/book/:bookSlug
GetQuoteByBook(slugParam, unique) ==
  LET bookSlug == toLowerCase(slugParam)
      avoidRepeat == unique = "true"
      bookName == FindBook(bookSlug)
      route == "GET /quote/book/:bookSlug"
  IN IF bookName = NoBook
       THEN /\ resp' = [Response(route, 404, "Book not found") EXCEPT
                          !.avoidRepeat = avoidRepeat, !.bookSlug = bookSlug]
            /\ UNCHANGED <<otherVars, quotesDatabase, booksList, servedQuotes,
                           servedQuotesByBook>>
       ELSE /\ \E r \in getRandomQuoteFromBook(bookName, avoidRepeat) :
                 /\ servedQuotesByBook' =
                      IF r.quote = NoQuote THEN servedQuotesByBook
                      ELSE SetServed(bookName, r.served)
                 /\ resp' =
                      IF r.quote = NoQuote
                        THEN [Response(route, 500,
                                       "No quotes available for book")
                                EXCEPT !.avoidRepeat = avoidRepeat,
                                       !.bookSlug = bookSlug,
                                       !.book = bookName]
                        ELSE [Response(route, 200, "") EXCEPT
                                !.avoidRepeat = avoidRepeat,
                                !.bookSlug = bookSlug,
                                !.book = bookName,
                                !.quote = r.quote,
                                !.attempts = r.attempts,
                                !.rollover = r.rollover]
            /\ UNCHANGED <<otherVars, quotesDatabase, booksList, servedQuotes>>

\* the lookup answering a missing quote with the error of a missing book
GetQuoteById_BookError(idParam) ==
  LET quoteId == parseInt(idParam)
      quote == FindQuote(quoteId)
      route == "GET /quote/:id"
  IN /\ resp' =
          IF isNaN(quoteId)
            THEN Response(route, 400, "Invalid quote ID")
          ELSE IF quote = NoQuote
            THEN [Response(route, 404, "Book not found") EXCEPT
                    !.quoteId = quoteId]
          ELSE [Response(route, 200, "") EXCEPT
                  !.quoteId = quoteId, !.quote = quote]
     /\ UNCHANGED <<otherVars, quotesDatabase, booksList, servedQuotes,
                    servedQuotesByBook>>

\* GET /quote/:id
GetQuoteById(idParam) ==
  LET quoteId == parseInt(idParam)
      quote == FindQuote(quoteId)
      route == "GET /quote/:id"
  IN /\ resp' =
          IF isNaN(quoteId)
            THEN Response(route, 400, "Invalid quote ID")
          ELSE IF quote = NoQuote
            THEN [Response(route, 404, "Quote not found") EXCEPT
                    !.quoteId = quoteId]
          ELSE [Response(route, 200, "") EXCEPT
                  !.quoteId = quoteId, !.quote = quote]
     /\ UNCHANGED <<otherVars, quotesDatabase, booksList, servedQuotes,
                    servedQuotesByBook>>

\* GET /stats
GetStats ==
  /\ resp' = [Response("GET /stats", 200, "") EXCEPT !.stats = StatsBody]
  /\ UNCHANGED <<otherVars, quotesDatabase, booksList, servedQuotes,
                 servedQuotesByBook>>

\* the reset without the test that the book has a tracker: clear() of
\* undefined throws and the error middleware answers 500
PostReset_NoGuard(bookParam) ==
  LET bookSlug == toLowerCase(bookParam)
      bookName == FindBook(bookSlug)
      route == "POST /reset"
  IN IF bookParam # NoParam
       THEN IF bookName = NoBook
              THEN /\ resp' = [Response(route, 404, "Book not found") EXCEPT
                                 !.bookSlug = bookSlug]
                   /\ UNCHANGED <<otherVars, quotesDatabase, booksList, servedQuotes,
                                  servedQuotesByBook>>
            ELSE IF bookName \notin DOMAIN servedQuotesByBook
              THEN /\ resp' = [Response(route, 500, "Internal server error")
                                 EXCEPT !.bookSlug = bookSlug,
                                        !.book = bookName]
                   /\ UNCHANGED <<otherVars, quotesDatabase, booksList, servedQuotes,
                                  servedQuotesByBook>>
              ELSE /\ servedQuotesByBook' = ClearBook(bookName)
                   /\ resp' = [Response(route, 200, "") EXCEPT
                                 !.bookSlug = bookSlug, !.book = bookName]
                   /\ UNCHANGED <<otherVars, quotesDatabase, booksList, servedQuotes>>
       ELSE /\ servedQuotes' = {}
            /\ servedQuotesByBook' = ClearAllBooks
            /\ resp' = Response(route, 200, "")
            /\ UNCHANGED <<otherVars, quotesDatabase, booksList>>

\* the reset without the return after the 404: it goes on to clear all
PostReset_FallThrough(bookParam) ==
  LET bookSlug == toLowerCase(bookParam)
      bookName == FindBook(bookSlug)
      route == "POST /reset"
  IN IF bookParam # NoParam
       THEN IF bookName = NoBook
              THEN /\ resp' = [Response(route, 404, "Book not found") EXCEPT
                                 !.bookSlug = bookSlug]
                   /\ servedQuotes' = {}
                   /\ servedQuotesByBook' = ClearAllBooks
                   /\ UNCHANGED <<otherVars, quotesDatabase, booksList>>
              ELSE /\ servedQuotesByBook' = ClearBook(bookName)
                   /\ resp' = [Response(route, 200, "") EXCEPT
                                 !.bookSlug = bookSlug, !.book = bookName]
                   /\ UNCHANGED <<otherVars, quotesDatabase, booksList, servedQuotes>>
       ELSE /\ servedQuotes' = {}
            /\ servedQuotesByBook' = ClearAllBooks
            /\ resp' = Response(route, 200, "")
            /\ UNCHANGED <<otherVars, quotesDatabase, booksList>>

\* POST /reset
PostReset(bookParam) ==
  LET bookSlug == toLowerCase(bookParam)
      bookName == FindBook(bookSlug)
      route == "POST /reset"
  IN IF bookParam # NoParam
       THEN IF bookName = NoBook
              THEN /\ resp' = [Response(route, 404, "Book not found") EXCEPT
                                 !.bookSlug = bookSlug]
                   /\ UNCHANGED <<otherVars, quotesDatabase, booksList, servedQuotes,
                                  servedQuotesByBook>>
              ELSE /\ servedQuotesByBook' = ClearBook(bookName)
                   /\ resp' = [Response(route, 200, "") EXCEPT
                                 !.bookSlug = bookSlug, !.book = bookName]
                   /\ UNCHANGED <<otherVars, quotesDatabase, booksList, servedQuotes>>
       ELSE /\ servedQuotes' = {}
            /\ servedQuotesByBook' = ClearAllBooks
            /\ resp' = Response(route, 200, "")
            /\ UNCHANGED <<otherVars, quotesDatabase, booksList>>

Next ==
  \/ \E unique \in UniqueParams : GetQuote(unique)
  \/ \E slugParam \in SlugParams, unique \in UniqueParams :
       GetQuoteByBook(slugParam, unique)
  \/ \E idParam \in IdParams : GetQuoteById(idParam)
  \/ GetStats
  \/ \E bookParam \in SlugParams \cup {NoParam} : PostReset(bookParam)

Spec == Init /\ [][Next]_vars

\* ------------------------------------------------- the server not started
\* the state of the server's variables while the builder or one function
\* is followed
ServerDown ==
  /\ quotesDatabase = <<>>
  /\ booksList = <<>>
  /\ servedQuotes = {}
  /\ servedQuotesByBook = <<>>
  /\ resp = Response("none", 0, "")

\* ------------------------------------------------------ the corpus builder
\* processAllPDFs of scripts/extract.js, followed by the start of the
\* server on the file it wrote.
MaxPages == 3

\* page texts as extractPageWiseText returns them: a page of white space, a
\* page whose only sentence is too short, a page of one sentence between
\* delimiters, a page of two sentences
BlankPage == <<Run(" ", 1)>>

ShortPage == <<Run("a", MIN_LINE_LENGTH - 1), Run(".", 1)>>

OneSentencePage ==
  <<Run(".", 1), Run("a", MIN_LINE_LENGTH), Run("U+0964", 1)>>

TwoSentencePage ==
  <<Run("a", MIN_LINE_LENGTH), Run("U+0964", 1), Run(" ", 1),
    Run("b", MAX_LINE_LENGTH)>>

PageTexts == {BlankPage, ShortPage, OneSentencePage, TwoSentencePage}

\* The PDF files of the books directory from the i-th on, with at most
\* budget pages between them.  A file that is not readable makes pdf-parse
\* or readFileSync throw in extractPageWiseText.
RECURSIVE Directories(_, _)
Directories(i, budget) ==
  IF i > Len(BooksDir) THEN {<<>>}
  ELSE UNION
         {{<<[name |-> BooksDir[i], readable |-> r, pageTexts |-> p]>>
             \o rest :
               r \in BOOLEAN, rest \in Directories(i + 1, budget - Len(p))} :
            p \in UNION {[1..k -> PageTexts] : k \in 0..budget}}

\* the loop over the pages in extractQuotesFromPDF
RECURSIVE PageQuotes(_, _, _)
PageQuotes(bookName, pageTexts, pageNum) ==
  IF pageNum > Len(pageTexts) THEN <<>>
  ELSE LET pageText == pageTexts[pageNum]
           found == SelectSeq(extractSentences(pageText),
                              LAMBDA sentence : sentence # <<>>)
       IN (IF TextLength(TextTrim(pageText)) = 0 THEN <<>>
           ELSE [k \in 1..Len(found) |->
                   [book |-> bookName, page |-> pageNum,
                    text |-> found[k]]])
          \o PageQuotes(bookName, pageTexts, pageNum + 1)

\* extractQuotesFromPDF without its try/catch: the error reaches the caller
extractQuotesFromPDF_Uncaught(pdf) ==
  [threw |-> ~pdf.readable,
   quotes |-> IF pdf.readable THEN PageQuotes(pdf.name, pdf.pageTexts, 1)
              ELSE <<>>]

\* what the call ends with: it catches every error and returns []
extractQuotesFromPDF(pdf) ==
  [threw |-> FALSE,
   quotes |-> IF pdf.readable THEN PageQuotes(pdf.name, pdf.pageTexts, 1)
              ELSE <<>>]

\* the ids starting again at 0 for every file
AssignIds_PerFile(quotes, quoteId) ==
  [k \in 1..Len(quotes) |->
     [id |-> k - 1, book |-> quotes[k].book, page |-> quotes[k].page,
      text |-> quotes[k].text]]

\* quotes.forEach(quote => { quote.id = quoteId++; })
AssignIds(quotes, quoteId) ==
  [k \in 1..Len(quotes) |->
     [id |-> quoteId + k - 1, book |-> quotes[k].book,
      page |-> quotes[k].page, text |-> quotes[k].text]]

BuildInit ==
  /\ pdfFiles \in Directories(1, MaxPages)
  /\ allQuotes = <<>>
  /\ nextQuoteId = 0
  /\ builder = [pc |-> "extract", done |-> 0]
  /\ ServerDown
  /\ text = <<>>
  /\ cleanings = <<>>
  /\ sentences = <<>>
  /\ inflight = NoRequests
  /\ running = <<>>
  /\ call = NoCall

\* one round of the loop over pdfFiles; an error that reaches
\* processAllPDFs ends the process in its catch
ExtractNextPdf ==
  /\ builder.pc = "extract"
  /\ builder.done < Len(pdfFiles)
  /\ LET r == extractQuotesFromPDF(pdfFiles[builder.done + 1])
     IN IF r.threw
          THEN /\ builder' = [builder EXCEPT !.pc = "failed"]
               /\ UNCHANGED <<allQuotes, nextQuoteId>>
          ELSE /\ allQuotes' = allQuotes \o AssignIds(r.quotes, nextQuoteId)
               /\ nextQuoteId' = nextQuoteId + Len(r.quotes)
               /\ builder' = [builder EXCEPT !.done = @ + 1]
  /\ UNCHANGED <<pdfFiles, serverVars, textVars, eventLoopVars, call>>

\* fs.writeFileSync(OUTPUT_PATH, JSON.stringify(allQuotes))
SaveDatabase ==
  /\ builder.pc = "extract"
  /\ builder.done = Len(pdfFiles)
  /\ builder' = [builder EXCEPT !.pc = "saved"]
  /\ UNCHANGED <<pdfFiles, allQuotes, nextQuoteId, serverVars, textVars,
                 eventLoopVars, call>>

\* loadQuotesDatabase on the saved file; the handlers read the id, the book
\* and the page of a quote and pass its text on
LoadQuotesDatabase ==
  /\ builder.pc = "saved"
  /\ IF Len(allQuotes) = 0
       THEN /\ builder' = [builder EXCEPT !.pc = "exit"]
            /\ UNCHANGED <<quotesDatabase, booksList>>
       ELSE /\ quotesDatabase' =
                 [k \in 1..Len(allQuotes) |->
                    [id |-> allQuotes[k].id, book |-> allQuotes[k].book,
                     page |-> allQuotes[k].page]]
            /\ booksList' = ExtractBooksList(quotesDatabase')
            /\ builder' = [builder EXCEPT !.pc = "serving"]
  /\ UNCHANGED <<pdfFiles, allQuotes, nextQuoteId, servedQuotes,
                 servedQuotesByBook, resp, textVars, eventLoopVars, call>>

BuildNext == ExtractNextPdf \/ SaveDatabase \/ LoadQuotesDatabase

BuildSpec == BuildInit /\ [][BuildNext]_vars

\* ------------------------------------------------- cleanText on its own
MaxRuns == 5

MaxPasses == 2

\* the texts of at most MaxRuns of these pieces
TextPieces ==
  {Run("a", MIN_LINE_LENGTH - 1), Run("a", MIN_LINE_LENGTH),
   Run("b", MAX_LINE_LENGTH),
   Run(" ", 1), Run("\n", 1), Run(".", 1), Run("U+0964", 1),
   Run("U+00E9", 1)}

Texts ==
  {Canon(pieces) :
     pieces \in UNION {[1..k -> TextPieces] : k \in 0..MaxRuns}}

TextInit ==
  /\ text \in Texts
  /\ cleanings = <<>>
  /\ sentences = <<>>
  /\ ServerDown
  /\ pdfFiles = <<>>
  /\ allQuotes = <<>>
  /\ nextQuoteId = 0
  /\ builder = IdleBuilder
  /\ inflight = NoRequests
  /\ running = <<>>
  /\ call = NoCall

\* cleanText applied to the text, or to what the call before returned
CleanText ==
  /\ Len(cleanings) < MaxPasses
  /\ cleanings' =
       Append(cleanings,
              cleanText(IF cleanings = <<>> THEN text
                        ELSE cleanings[Len(cleanings)]))
  /\ UNCHANGED <<text, sentences, serverVars, builderVars, eventLoopVars,
                 call>>

ExtractSentences ==
  /\ sentences = <<>>
  /\ sentences' = <<extractSentences(text)>>
  /\ UNCHANGED <<text, cleanings, serverVars, builderVars, eventLoopVars,
                 call>>

TextNext == CleanText \/ ExtractSentences

TextSpec == TextInit /\ [][TextNext]_vars

\* ------------------------------------------------------- the event loop
\* GET /quote and POST /reset with several requests waiting.  Node takes a
\* waiting request only when the call stack is empty and runs its handler,
\* which awaits nothing, to its end.  The handler is followed statement by
\* statement: the test of the size, the clearing, the retry loop, the
\* insert, the response.
MaxWaiting == 2

Waiting == {r \in Requests : inflight[r] > 0}

RECURSIVE CountWaiting(_)
CountWaiting(rs) ==
  IF rs = {} THEN 0
  ELSE LET r == CHOOSE x \in rs : TRUE
       IN inflight[r] + CountWaiting(rs \ {r})

\* the activation of a handler: its request, the statement it is at and
\* its local variable quote
Frame(r, pc, quote) == [req |-> r, pc |-> pc, quote |-> quote]

AtTop(r, pc) ==
  /\ running # <<>>
  /\ Head(running).req.route = r
  /\ Head(running).pc = pc

Goto(pc, quote) ==
  <<Frame(Head(running).req, pc, quote)>> \o Tail(running)

EventLoopInit ==
  /\ quotesDatabase \in Corpora
  /\ booksList = ExtractBooksList(quotesDatabase)
  /\ servedQuotes = {}
  /\ servedQuotesByBook = <<>>
  /\ resp = Response("none", 0, "")
  /\ inflight = NoRequests
  /\ running = <<>>
  /\ pdfFiles = <<>>
  /\ allQuotes = <<>>
  /\ nextQuoteId = 0
  /\ builder = IdleBuilder
  /\ text = <<>>
  /\ cleanings = <<>>
  /\ sentences = <<>>
  /\ call = NoCall

\* a request arrives while others wait or a handler runs
Arrive(r) ==
  /\ CountWaiting(Requests) < MaxWaiting
  /\ inflight' = [inflight EXCEPT ![r] = @ + 1]
  /\ UNCHANGED <<running, serverVars, builderVars, textVars, call>>

\* the event loop starting a handler in the middle of another one
Dispatch_Preemptive(r) ==
  /\ inflight[r] > 0
  /\ Len(running) < 2
  /\ inflight' = [inflight EXCEPT ![r] = @ - 1]
  /\ running' = <<Frame(r, "start", NoQuote)>> \o running
  /\ UNCHANGED <<serverVars, builderVars, textVars, call>>

\* the event loop calls the handler of a waiting request
Dispatch(r) ==
  /\ inflight[r] > 0
  /\ running = <<>>
  /\ inflight' = [inflight EXCEPT ![r] = @ - 1]
  /\ running' = <<Frame(r, "start", NoQuote)>> \o running
  /\ UNCHANGED <<serverVars, builderVars, textVars, call>>

\* getRandomQuote up to the test of servedQuotes.size
CheckSize ==
  /\ AtTop("GET /quote", "start")
  /\ running' =
       IF Len(quotesDatabase) = 0 THEN Goto("send", NoQuote)
       ELSE IF /\ Head(running).req.unique = "true"
               /\ Cardinality(servedQuotes) >= Len(quotesDatabase)
         THEN Goto("clear", NoQuote)
       ELSE Goto("pick", NoQuote)
  /\ UNCHANGED <<inflight, serverVars, builderVars, textVars, call>>

\* servedQuotes.clear()
ClearOnRollover ==
  /\ AtTop("GET /quote", "clear")
  /\ servedQuotes' = {}
  /\ running' = Goto("pick", NoQuote)
  /\ UNCHANGED <<inflight, quotesDatabase, booksList, servedQuotesByBook,
                 resp, builderVars, textVars, call>>

\* the do/while loop
Pick ==
  /\ AtTop("GET /quote", "pick")
  /\ \E o \in RetryLoop(quotesDatabase, servedQuotes,
                        Head(running).req.unique = "true") :
       running' =
         Goto(IF Head(running).req.unique = "true" THEN "insert" ELSE "send",
              o.quote)
  /\ UNCHANGED <<inflight, serverVars, builderVars, textVars, call>>

\* servedQuotes.add(quote.id)
Insert ==
  /\ AtTop("GET /quote", "insert")
  /\ servedQuotes' = servedQuotes \cup {Head(running).quote.id}
  /\ running' = Goto("send", Head(running).quote)
  /\ UNCHANGED <<inflight, quotesDatabase, booksList, servedQuotesByBook,
                 resp, builderVars, textVars, call>>

\* res.json(quote), or the 500 for null, and the return of the handler
SendQuote ==
  /\ AtTop("GET /quote", "send")
  /\ resp' =
       IF Head(running).quote = NoQuote
         THEN [Response("GET /quote", 500, "No quotes available") EXCEPT
                 !.avoidRepeat = Head(running).req.unique = "true"]
         ELSE [Response("GET /quote", 200, "") EXCEPT
                 !.avoidRepeat = Head(running).req.unique = "true",
                 !.quote = Head(running).quote]
  /\ running' = Tail(running)
  /\ UNCHANGED <<inflight, quotesDatabase, booksList, servedQuotes,
                 servedQuotesByBook, builderVars, textVars, call>>

\* POST /reset without a book: both clearings
ClearTrackers ==
  /\ AtTop("POST /reset", "start")
  /\ servedQuotes' = {}
  /\ servedQuotesByBook' = ClearAllBooks
  /\ running' = Goto("send", NoQuote)
  /\ UNCHANGED <<inflight, quotesDatabase, booksList, resp, builderVars,
                 textVars, call>>

\* res.json({ message: 'All served quotes trackers reset successfully' })
SendReset ==
  /\ AtTop("POST /reset", "send")
  /\ resp' = Response("POST /reset", 200, "")
  /\ running' = Tail(running)
  /\ UNCHANGED <<inflight, quotesDatabase, booksList, servedQuotes,
                 servedQuotesByBook, builderVars, textVars, call>>

EventLoopNext ==
  \/ \E r \in Requests : Arrive(r)
  \/ \E r \in Requests : Dispatch(r)
  \/ CheckSize
  \/ ClearOnRollover
  \/ Pick
  \/ Insert
  \/ SendQuote
  \/ ClearTrackers
  \/ SendReset

EventLoopSpec == EventLoopInit /\ [][EventLoopNext]_vars

\* ------------------------------------------------ a draw pick by pick
\* One call of getRandomQuote or getRandomQuoteFromBook, every round of its
\* do/while loop a step.  The call starts on any corpus, with any
\* served-set the scope can have.  Besides the locals of the function, the
\* call keeps count of the picks that were served ids (misses) and the
\* first pick that was not (firstFresh).
NewCall(fn, bookName, avoidRepeat) ==
  [NoCall EXCEPT !.fn = fn, !.bookName = bookName,
                 !.avoidRepeat = avoidRepeat, !.pc = "enter"]

\* the served-set the call works on
CallServed(c, global, byBook) ==
  IF c.fn = "getRandomQuote" THEN global ELSE ServedIn(byBook, c.bookName)

LoopInit ==
  /\ quotesDatabase \in Corpora
  /\ booksList = ExtractBooksList(quotesDatabase)
  /\ resp = Response("none", 0, "")
  /\ \E avoidRepeat \in BOOLEAN :
       \/ /\ servedQuotes \in SUBSET Ids(quotesDatabase)
          /\ servedQuotesByBook = <<>>
          /\ call = NewCall("getRandomQuote", NoBook, avoidRepeat)
       \/ \E b \in Range(booksList) :
            /\ servedQuotes = {}
            /\ servedQuotesByBook \in
                 {<<>>} \cup {[x \in {b} |-> ids] :
                            ids \in SUBSET Ids(BookQuotes(b))}
            /\ call = NewCall("getRandomQuoteFromBook", b, avoidRepeat)
  /\ pdfFiles = <<>>
  /\ allQuotes = <<>>
  /\ nextQuoteId = 0
  /\ builder = IdleBuilder
  /\ text = <<>>
  /\ cleanings = <<>>
  /\ sentences = <<>>
  /\ inflight = NoRequests
  /\ running = <<>>

\* the function up to its loop: the population, the null for an empty one,
\* the tracker of the book, the clearing of a full served-set
EnterDraw ==
  /\ call.pc = "enter"
  /\ LET pool == IF call.fn = "getRandomQuote" THEN quotesDatabase
                 ELSE BookQuotes(call.bookName)
         served == CallServed(call, servedQuotes, servedQuotesByBook)
         rollover == call.avoidRepeat /\ Cardinality(served) >= Len(pool)
         start == IF rollover THEN {} ELSE served
     IN IF Len(pool) = 0
          THEN /\ call' = [call EXCEPT !.pc = "done"]
               /\ UNCHANGED <<servedQuotes, servedQuotesByBook>>
          ELSE /\ call' = [call EXCEPT !.pc = "loop", !.pool = pool]
               /\ IF call.fn = "getRandomQuote"
                    THEN /\ servedQuotes' = start
                         /\ UNCHANGED servedQuotesByBook
                    ELSE /\ servedQuotesByBook' =
                              SetServed(call.bookName, start)
                         /\ UNCHANGED servedQuotes
  /\ UNCHANGED <<quotesDatabase, booksList, resp, builderVars, textVars,
                 eventLoopVars>>

\* the round of a loop that is left after its first pick, whatever it is
PickQuote_NoRetry(randomIndex) ==
  /\ call.pc = "loop"
  /\ randomIndex < Len(call.pool)
  /\ LET quote == call.pool[randomIndex + 1]
         has == quote.id \in
                  CallServed(call, servedQuotes, servedQuotesByBook)
     IN call' = [call EXCEPT
                   !.quote = quote,
                   !.attempts = @ + 1,
                   !.misses = IF has THEN @ + 1 ELSE @,
                   !.firstFresh = IF ~has /\ @ = NoQuote THEN quote ELSE @,
                   !.pc = "picked"]
  /\ UNCHANGED <<serverVars, builderVars, textVars, eventLoopVars>>

\* the round of a loop that does not count its picks
PickQuote_NoCount(randomIndex) ==
  /\ call.pc = "loop"
  /\ randomIndex < Len(call.pool)
  /\ LET quote == call.pool[randomIndex + 1]
         has == quote.id \in
                  CallServed(call, servedQuotes, servedQuotesByBook)
     IN call' = [call EXCEPT
                   !.quote = quote,
                   !.misses = IF has /\ @ < maxAttempts THEN @ + 1 ELSE @,
                   !.firstFresh = IF ~has /\ @ = NoQuote THEN quote ELSE @,
                   !.pc = IF \/ ~call.avoidRepeat
                             \/ ~has
                             \/ call.attempts >= maxAttempts
                            THEN "picked"
                          ELSE "loop"]
  /\ UNCHANGED <<serverVars, builderVars, textVars, eventLoopVars>>

\* One round of the do/while loop: the pick of index randomIndex, the
\* count, the break; where the break is not taken the pick is a served id,
\* so the while condition holds and the loop goes round again.
PickQuote(randomIndex) ==
  /\ call.pc = "loop"
  /\ randomIndex < Len(call.pool)
  /\ LET quote == call.pool[randomIndex + 1]
         has == quote.id \in
                  CallServed(call, servedQuotes, servedQuotesByBook)
     IN call' = [call EXCEPT
                   !.quote = quote,
                   !.attempts = @ + 1,
                   !.misses = IF has THEN @ + 1 ELSE @,
                   !.firstFresh = IF ~has /\ @ = NoQuote THEN quote ELSE @,
                   !.pc = IF \/ ~call.avoidRepeat
                             \/ ~has
                             \/ call.attempts + 1 >= maxAttempts
                            THEN "picked"
                          ELSE "loop"]
  /\ UNCHANGED <<serverVars, builderVars, textVars, eventLoopVars>>

\* the insert after the loop and the return of the quote
FinishDraw ==
  /\ call.pc = "picked"
  /\ call' = [call EXCEPT !.pc = "done"]
  /\ IF ~call.avoidRepeat
       THEN UNCHANGED <<servedQuotes, servedQuotesByBook>>
     ELSE IF call.fn = "getRandomQuote"
       THEN /\ servedQuotes' = servedQuotes \cup {call.quote.id}
            /\ UNCHANGED servedQuotesByBook
     ELSE /\ servedQuotesByBook' =
               SetServed(call.bookName,
                         ServedOf(call.bookName) \cup {call.quote.id})
          /\ UNCHANGED servedQuotes
  /\ UNCHANGED <<quotesDatabase, booksList, resp, builderVars, textVars,
                 eventLoopVars>>

LoopNext ==
  \/ EnterDraw
  \/ \E randomIndex \in 0..(MaxQuotes - 1) : PickQuote(randomIndex)
  \/ FinishDraw

LoopSpec == LoopInit /\ [][LoopNext]_vars

\* the function is straight-line code and a loop: it takes its next step
LoopLive == LoopSpec /\ WF_vars(LoopNext)

\* ------------------------------------------------------------ properties
GlobalRoute == "GET /quote"
BookRoute == "GET /quote/book/:bookSlug"
LookupRoute == "GET /quote/:id"
StatsRoute == "GET /stats"
ResetRoute == "POST /reset"

\* the step is a draw over all books / from one book that returned a quote
GlobalDrawStep(avoidRepeat) ==
  /\ resp'.route = GlobalRoute
  /\ resp'.status = 200
  /\ resp'.avoidRepeat = avoidRepeat

BookDrawStep(avoidRepeat) ==
  /\ resp'.route = BookRoute
  /\ resp'.status = 200
  /\ resp'.avoidRepeat = avoidRepeat

BookIds(bookName) == Ids(BookQuotes(bookName))

Full(served, pool) == Cardinality(served) = Len(pool)

\* C1 as stated: a unique draw on a scope whose served-set is not full
\* never returns an id of the served-set, so the draws of one cycle return
\* pairwise different ids.
C1_NoRepeatInCycle ==
  [][/\ (GlobalDrawStep(TRUE) /\ ~Full(servedQuotes, quotesDatabase))
          => resp'.quote.id \notin servedQuotes
     /\ (BookDrawStep(TRUE)
           /\ ~Full(ServedOf(resp'.book), BookQuotes(resp'.book)))
          => resp'.quote.id \notin ServedOf(resp'.book)]_vars

\* C1 amended: a unique draw that ends before its last attempt, on a scope
\* whose served-set is not full, returns an id of the scope that is not in
\* the served-set and adds exactly that id.  Population-size-many such
\* draws from the empty served-set therefore return every id of the scope
\* exactly once; only a draw that uses all maxAttempts picks can repeat.
C1_NoRepeatBeforeLastAttempt ==
  [][/\ (GlobalDrawStep(TRUE) /\ ~Full(servedQuotes, quotesDatabase)
           /\ resp'.attempts < maxAttempts)
          => /\ resp'.quote.id \in Ids(quotesDatabase) \ servedQuotes
             /\ servedQuotes' = servedQuotes \cup {resp'.quote.id}
     /\ (BookDrawStep(TRUE)
           /\ ~Full(ServedOf(resp'.book), BookQuotes(resp'.book))
           /\ resp'.attempts < maxAttempts)
          => /\ resp'.quote.id
                  \in BookIds(resp'.book) \ ServedOf(resp'.book)
             /\ ServedIn(servedQuotesByBook', resp'.book) =
                  ServedOf(resp'.book) \cup {resp'.quote.id}]_vars

\* a cycle over three quotes completed by a draw that needed a retry
C1_Witness ==
  /\ resp.route = GlobalRoute
  /\ resp.avoidRepeat
  /\ ~resp.rollover
  /\ resp.attempts > 1
  /\ resp.attempts < maxAttempts
  /\ Len(quotesDatabase) >= 3
  /\ servedQuotes = Ids(quotesDatabase)

\* C2: the global served-set is never larger than the corpus and the
\* served-set of a book is never larger than the number of its quotes.
C2_ServedSizeWithinPopulation ==
  /\ Cardinality(servedQuotes) <= Len(quotesDatabase)
  /\ \A b \in DOMAIN servedQuotesByBook :
       Cardinality(servedQuotesByBook[b]) <= Len(BookQuotes(b))

\* both the global served-set and the served-set of a two-quote book full
C2_Witness ==
  /\ Full(servedQuotes, quotesDatabase)
  /\ \E b \in DOMAIN servedQuotesByBook :
       /\ Len(BookQuotes(b)) >= 2
       /\ Full(servedQuotesByBook[b], BookQuotes(b))
       /\ Len(quotesDatabase) > Len(BookQuotes(b))

\* C3: a unique draw on a scope whose served-set is full clears it first:
\* afterwards the served-set holds the returned id and nothing else.
C3_RolloverLeavesOne ==
  [][/\ (GlobalDrawStep(TRUE) /\ Full(servedQuotes, quotesDatabase))
          => /\ servedQuotes' = {resp'.quote.id}
             /\ resp'.rollover
     /\ (BookDrawStep(TRUE)
           /\ Full(ServedOf(resp'.book), BookQuotes(resp'.book)))
          => /\ ServedIn(servedQuotesByBook', resp'.book)
                  = {resp'.quote.id}
             /\ resp'.rollover]_vars

\* a book of two quotes just after its served-set rolled over
C3_Witness ==
  /\ resp.route = BookRoute
  /\ resp.rollover
  /\ Len(BookQuotes(resp.book)) >= 2
  /\ ServedOf(resp.book) = {resp.quote.id}

\* C4: a draw without unique=true leaves the contents of the global
\* served-set and of every book's served-set as they were.
C4_PlainDrawKeepsServed ==
  [][(resp'.route \in {GlobalRoute, BookRoute} /\ ~resp'.avoidRepeat)
       => /\ servedQuotes' = servedQuotes
          /\ \A b \in Range(booksList) : ServedOf(b)' = ServedOf(b)]_vars

\* a plain draw from a two-quote book whose served-set is full
C4_Witness ==
  /\ resp.route = BookRoute
  /\ resp.status = 200
  /\ ~resp.avoidRepeat
  /\ Len(BookQuotes(resp.book)) >= 2
  /\ ServedOf(resp.book) = BookIds(resp.book)

\* C5: a unique draw over all books changes no book's served-set; a unique
\* draw from book B changes neither the global served-set nor the
\* served-set of any other book.
C5_ScopesIndependent ==
  [][/\ GlobalDrawStep(TRUE) => servedQuotesByBook' = servedQuotesByBook
     /\ BookDrawStep(TRUE)
          => /\ servedQuotes' = servedQuotes
             /\ \A b \in Range(booksList) \ {resp'.book} :
                  /\ ServedOf(b)' = ServedOf(b)
                  /\ b \in DOMAIN servedQuotesByBook'
                       <=> b \in DOMAIN servedQuotesByBook]_vars

\* a unique draw from one book while the global served-set and another
\* book's served-set hold ids
C5_Witness ==
  /\ resp.route = BookRoute
  /\ resp.status = 200
  /\ resp.avoidRepeat
  /\ servedQuotes # {}
  /\ \E b \in DOMAIN servedQuotesByBook :
       /\ b # resp.book
       /\ servedQuotesByBook[b] # {}
       /\ servedQuotesByBook[b] # ServedOf(resp.book)

\* a slug that is the slug of no book of booksList
UnknownSlug(slug) ==
  \A i \in 1..Len(booksList) : Slug(booksList[i]) # slug

\* r answers a reset of all trackers / a reset that succeeded
IsResetAll(r) ==
  r.route = ResetRoute /\ r.status = 200 /\ r.bookSlug = NoBook

IsReset(r) == r.route = ResetRoute /\ r.status = 200

\* C6: statistics asked right after a reset of all trackers report no
\* served quote overall, none for any book of booksList, and as many
\* remaining quotes as the corpus has.
C6_ResetAllThenStatsZero ==
  [][(IsResetAll(resp) /\ resp'.route = StatsRoute)
       => /\ resp'.stats.served_quotes_overall = 0
          /\ resp'.stats.remaining_quotes_overall = Len(quotesDatabase)
          /\ resp'.stats.total_quotes = Len(quotesDatabase)
          /\ Len(resp'.stats.books) = Len(booksList)
          /\ \A i \in 1..Len(booksList) :
               /\ resp'.stats.books[i].name = booksList[i]
               /\ resp'.stats.books[i].served_quotes = 0]_vars

\* statistics of zero served quotes while two books have a tracker
C6_Witness ==
  /\ resp.route = StatsRoute
  /\ resp.stats.served_quotes_overall = 0
  /\ Cardinality(DOMAIN servedQuotesByBook) >= 2
  /\ \A i \in 1..Len(booksList) : resp.stats.books[i].served_quotes = 0

\* C7: a reset repeated right after the same successful reset changes no
\* served-set; a reset of all trackers or of a known book answers 200 and
\* leaves its served-sets empty, whether or not they held ids or existed.
C7_ResetIdempotent ==
  [][/\ (IsReset(resp) /\ resp' = resp)
          => UNCHANGED <<servedQuotes, servedQuotesByBook>>
     /\ (resp'.route = ResetRoute /\ resp'.bookSlug = NoBook)
          => /\ resp'.status = 200
             /\ servedQuotes' = {}
             /\ \A b \in Range(booksList) :
                  ServedIn(servedQuotesByBook', b) = {}
     /\ (resp'.route = ResetRoute /\ resp'.bookSlug # NoBook
           /\ ~UnknownSlug(resp'.bookSlug))
          => /\ resp'.status = 200
             /\ ServedIn(servedQuotesByBook', resp'.book) = {}]_vars

\* a successful reset of a book that has no tracker yet
C7_Witness ==
  /\ IsReset(resp)
  /\ resp.book # NoBook
  /\ resp.book \notin DOMAIN servedQuotesByBook

\* C8: a reset that names a slug of no known book answers 404 and changes
\* no served-set.
C8_ResetUnknownBook ==
  [][(resp'.route = ResetRoute /\ resp'.bookSlug # NoBook
        /\ UnknownSlug(resp'.bookSlug))
       => /\ resp'.status = 404
          /\ UNCHANGED <<servedQuotes, servedQuotesByBook>>]_vars

\* the 404 of a reset while the global and a book's served-set hold ids
C8_Witness ==
  /\ resp.route = ResetRoute
  /\ resp.status = 404
  /\ servedQuotes # {}
  /\ \E b \in DOMAIN servedQuotesByBook : servedQuotesByBook[b] # {}

\* C9: a lookup by an integer id answers 404 "Quote not found" when the id
\* is outside 0..N-1 and otherwise the quote stored with that id, and it
\* changes no served-set.
C9_LookupById ==
  [][(resp'.route = LookupRoute /\ ~isNaN(resp'.quoteId))
       => /\ UNCHANGED <<servedQuotes, servedQuotesByBook>>
          /\ IF resp'.quoteId \in 0..(Len(quotesDatabase) - 1)
               THEN /\ resp'.status = 200
                    /\ resp'.quote = quotesDatabase[resp'.quoteId + 1]
                    /\ resp'.quote.id = resp'.quoteId
               ELSE /\ resp'.status = 404
                    /\ resp'.error = "Quote not found"
                    /\ resp'.quote = NoQuote]_vars

\* a lookup that found quote 1 while served-sets hold ids
C9_Witness ==
  /\ resp.route = LookupRoute
  /\ resp.status = 200
  /\ resp.quote.id = 1
  /\ servedQuotes # {}
  /\ \E b \in DOMAIN servedQuotesByBook : servedQuotesByBook[b] # {}

\* r answers a draw for a slug of no known book / a lookup of an id that
\* no quote has
IsUnknownScopeDraw(r) ==
  r.route = BookRoute /\ UnknownSlug(r.bookSlug)

IsQuoteNotFound(r) ==
  /\ r.route = LookupRoute
  /\ ~isNaN(r.quoteId)
  /\ r.quoteId \notin Ids(quotesDatabase)

\* C10: of two answers that follow one another, one to a draw for an
\* unknown slug and one to a lookup of a missing quote, both are 404s with
\* an error field, and the two error fields differ.
C10_UnknownScopeDistinct ==
  [][(\/ IsUnknownScopeDraw(resp) /\ IsQuoteNotFound(resp')
      \/ IsQuoteNotFound(resp) /\ IsUnknownScopeDraw(resp'))
       => /\ resp.status = 404
          /\ resp'.status = 404
          /\ resp.error # ""
          /\ resp'.error # ""
          /\ resp.error # resp'.error]_vars

\* the answer to a draw for an unknown slug in a corpus that has books
C10_Witness ==
  /\ IsUnknownScopeDraw(resp)
  /\ resp.error = "Book not found"
  /\ booksList # <<>>

\* r answers a draw with an error: an unknown slug (404), an empty corpus or
\* a book without quotes (500)
IsFailedDraw(r) ==
  r.route \in {GlobalRoute, BookRoute} /\ r.status # 200

\* C11: a draw that is answered with an error leaves the global served-set
\* and the whole map of book served-sets as they were: nothing inserted,
\* nothing cleared, no tracker created.
C11_FailedDrawKeepsServed ==
  [][IsFailedDraw(resp')
       => UNCHANGED <<servedQuotes, servedQuotesByBook>>]_vars

\* the error of a draw while the global and a book's served-set hold ids
C11_Witness ==
  /\ IsFailedDraw(resp)
  /\ resp.quote = NoQuote
  /\ servedQuotes # {}
  /\ \E b \in DOMAIN servedQuotesByBook : servedQuotesByBook[b] # {}

\* the place of a book's file in the directory
SourceIndex(bookName) ==
  CHOOSE i \in 1..Len(BooksDir) : BooksDir[i] = bookName

\* the texts of the collected quotes of one page of one file, in order
TextsOfPage(quotes, bookName, pageNum) ==
  LET ofPage == SelectSeq(quotes,
                          LAMBDA q : q.book = bookName /\ q.page = pageNum)
  IN [k \in 1..Len(ofPage) |-> ofPage[k].text]

\* the k-th quote of the sequence has id k-1
IdsCountUp(quotes) == \A k \in 1..Len(quotes) : quotes[k].id = k - 1

\* C12: at every point of the build the collected quotes carry the ids
\* 0, 1, ..., N-1 in the order they were collected and the counter stands
\* at N; they are ordered by file, then by page; the quotes of one page are
\* the sentences of that page in their order; so a quote of an earlier file
\* has a smaller id than a quote of a later file.
C12_IdsContiguousInOrder ==
  /\ nextQuoteId = Len(allQuotes)
  /\ IdsCountUp(allQuotes)
  /\ \A k, l \in 1..Len(allQuotes) :
       k < l =>
         /\ SourceIndex(allQuotes[k].book) <= SourceIndex(allQuotes[l].book)
         /\ allQuotes[k].book = allQuotes[l].book
              => allQuotes[k].page <= allQuotes[l].page
         /\ SourceIndex(allQuotes[k].book) < SourceIndex(allQuotes[l].book)
              => allQuotes[k].id < allQuotes[l].id
  /\ \A i \in 1..builder.done :
       pdfFiles[i].readable =>
         \A p \in 1..Len(pdfFiles[i].pageTexts) :
           TextsOfPage(allQuotes, pdfFiles[i].name, p) =
             extractSentences(pdfFiles[i].pageTexts[p])

\* a saved corpus of three quotes: one of an earlier file, then the two
\* sentences of one page of a later file
C12_Witness ==
  /\ builder.pc = "saved"
  /\ Len(allQuotes) = 3
  /\ allQuotes[1].book # allQuotes[2].book
  /\ allQuotes[2].book = allQuotes[3].book
  /\ allQuotes[2].page = allQuotes[3].page
  /\ allQuotes[2].text # allQuotes[3].text

\* the number of collected quotes of a book
QuotesOfBook(quotes, bookName) ==
  Len(SelectSeq(quotes, LAMBDA q : q.book = bookName))

\* C13: the round of the loop for a file that cannot be decoded adds no
\* quote, uses no id and goes on to the next file; the build never ends in
\* processAllPDFs' catch; and the saved corpus has no quote of an unreadable
\* file, every quote of every readable file, and the ids 0..N-1.
C13_FailedSourceSkipped ==
  [][/\ (/\ builder.pc = "extract"
         /\ builder.done < Len(pdfFiles)
         /\ ~pdfFiles[builder.done + 1].readable)
          => /\ allQuotes' = allQuotes
             /\ nextQuoteId' = nextQuoteId
             /\ builder' = [pc |-> "extract", done |-> builder.done + 1]
     /\ builder'.pc # "failed"
     /\ builder'.pc = "saved"
          => /\ builder'.done = Len(pdfFiles)
             /\ IdsCountUp(allQuotes')
             /\ \A i \in 1..Len(pdfFiles) :
                  QuotesOfBook(allQuotes', pdfFiles[i].name) =
                    IF pdfFiles[i].readable
                      THEN Len(PageQuotes(pdfFiles[i].name,
                                          pdfFiles[i].pageTexts, 1))
                      ELSE 0]_vars

\* a saved corpus with quotes of the first and the third file while the
\* second, which has a page of sentences, could not be decoded
C13_Witness ==
  /\ builder.pc = "saved"
  /\ ~pdfFiles[2].readable
  /\ pdfFiles[2].pageTexts # <<>>
  /\ pdfFiles[2].pageTexts[1] \in {OneSentencePage, TwoSentencePage}
  /\ QuotesOfBook(allQuotes, pdfFiles[1].name) > 0
  /\ QuotesOfBook(allQuotes, pdfFiles[3].name) > 0
  /\ QuotesOfBook(allQuotes, pdfFiles[2].name) = 0

\* C14: once the server has loaded the built corpus, a file's book is in
\* booksList exactly when a quote of the corpus has that book, which is
\* exactly when the file yielded a quote; booksList names nothing else and
\* names no book twice.
C14_ListedIffHasQuote ==
  builder.pc = "serving" =>
    /\ \A i \in 1..Len(pdfFiles) :
         /\ pdfFiles[i].name \in Range(booksList)
              <=> \E k \in 1..Len(quotesDatabase) :
                    quotesDatabase[k].book = pdfFiles[i].name
         /\ pdfFiles[i].name \in Range(booksList)
              <=> extractQuotesFromPDF(pdfFiles[i]).quotes # <<>>
    /\ Range(booksList) \subseteq Range(BooksDir)
    /\ Cardinality(Range(booksList)) = Len(booksList)

\* one book listed, while one readable file has only a blank page and
\* another only a page without a sentence that is long enough
C14_Witness ==
  /\ builder.pc = "serving"
  /\ Len(booksList) = 1
  /\ \E i, j \in 1..Len(pdfFiles) :
       /\ pdfFiles[i].readable
       /\ pdfFiles[i].pageTexts = <<BlankPage>>
       /\ pdfFiles[j].readable
       /\ pdfFiles[j].pageTexts = <<ShortPage>>

\* the characters of a text that are not white space
NonSpace(t) == Canon(SelectSeq(t, LAMBDA r : r.ch \notin TextSpace))

RECURSIVE Concat(_)
Concat(ts) == IF ts = <<>> THEN <<>> ELSE Head(ts) \o Concat(Tail(ts))

\* the characters of o occur in t in the same order, possibly with others
\* between them
RECURSIVE IsSubtext(_, _)
IsSubtext(o, t) ==
  IF o = <<>> THEN TRUE
  ELSE IF t = <<>> THEN FALSE
  ELSE IF Head(o).ch # Head(t).ch THEN IsSubtext(o, Tail(t))
  ELSE IF Head(o).n = Head(t).n THEN IsSubtext(Tail(o), Tail(t))
  ELSE IF Head(o).n < Head(t).n
    THEN IsSubtext(Tail(o),
                   <<Run(Head(t).ch, Head(t).n - Head(o).n)>> \o Tail(t))
    ELSE IsSubtext(<<Run(Head(o).ch, Head(o).n - Head(t).n)>> \o Tail(o),
                   Tail(t))

\* C15: whatever the text, extractSentences returns, and every fragment it
\* returns is non-empty and MIN_LINE_LENGTH to MAX_LINE_LENGTH characters
\* long; the fragments' characters, read one fragment after the other, occur
\* in the text in that order, so the fragments keep the order of the text;
\* no fragment is empty even when the text starts or ends with delimiters.
C15_SegmentsBoundedInOrder ==
  sentences # <<>> =>
    /\ \A i \in 1..Len(sentences[1]) :
         /\ sentences[1][i] # <<>>
         /\ TextLength(sentences[1][i]) >= MIN_LINE_LENGTH
         /\ TextLength(sentences[1][i]) <= MAX_LINE_LENGTH
    /\ IsSubtext(NonSpace(Concat(sentences[1])), NonSpace(text))

\* two different fragments from a text that starts and ends with a
\* delimiter
C15_Witness ==
  /\ sentences # <<>>
  /\ Len(sentences[1]) = 2
  /\ sentences[1][1] # sentences[1][2]
  /\ Head(text).ch \in Delimiters
  /\ text[Len(text)].ch \in Delimiters

\* C16 as stated: cleanText applied to a result of cleanText returns that
\* result.
C16_CleanTextIdempotent ==
  Len(cleanings) >= 2 => cleanings[2] = cleanings[1]

\* the activation is a unique draw that is at the given statement
UniqueDrawAt(f, pc) ==
  f.req.route = GlobalRoute /\ f.req.unique = "true" /\ f.pc = pc

\* C17: whatever requests wait, a handler that was started finds at each of
\* its statements what its earlier statements left: the clearing is reached
\* only with the served-set still full, the retry loop only with it still
\* not full, the response of a unique draw only with its id still in the
\* served-set; at most one handler is started and not finished; and the
\* served-set never holds more ids than the corpus has quotes.
C17_HandlersIndivisible ==
  /\ Len(running) <= 1
  /\ Cardinality(servedQuotes) <= Len(quotesDatabase)
  /\ \A i \in 1..Len(running) :
       /\ UniqueDrawAt(running[i], "clear")
            => Cardinality(servedQuotes) >= Len(quotesDatabase)
       /\ UniqueDrawAt(running[i], "pick")
            => Cardinality(servedQuotes) < Len(quotesDatabase)
       /\ UniqueDrawAt(running[i], "insert")
            => Cardinality(servedQuotes) < Len(quotesDatabase)
       /\ UniqueDrawAt(running[i], "send")
            => running[i].quote.id \in servedQuotes

\* a unique draw about to insert its second id while another unique draw
\* and a reset wait
C17_Witness ==
  /\ running # <<>>
  /\ UniqueDrawAt(Head(running), "insert")
  /\ servedQuotes # {}
  /\ Head(running).quote.id \notin servedQuotes
  /\ inflight[[route |-> GlobalRoute, unique |-> "true"]] > 0
  /\ inflight[[route |-> ResetRoute, unique |-> ""]] > 0

\* the step is the end of a unique draw: the insert and the return
UniqueDrawEnds ==
  call.pc = "picked" /\ call'.pc = "done" /\ call.avoidRepeat

\* C18: a unique draw returns its last pick.  If that is an id the
\* served-set held during the loop, the draw made maxAttempts picks and all
\* of them were served ids.  If a pick was not a served id, the first such
\* pick is returned and the served-set afterwards is the one before plus
\* that one id.
C18_RepeatOnlyAfterAllPicks ==
  [][UniqueDrawEnds =>
       LET before == CallServed(call, servedQuotes, servedQuotesByBook)
           after == CallServed(call, servedQuotes', servedQuotesByBook')
       IN /\ call'.quote = call.quote
          /\ call.quote.id \in before
               => /\ call.attempts = maxAttempts
                  /\ call.misses = maxAttempts
          /\ call.firstFresh # NoQuote
               => /\ call.quote = call.firstFresh
                  /\ call.misses = call.attempts - 1
                  /\ after = before \cup {call.quote.id}
                  /\ Cardinality(after) = Cardinality(before) + 1]_vars

\* a unique book draw that found an unserved quote after picking served
\* ones
C18_Witness ==
  /\ call.pc = "done"
  /\ call.fn = "getRandomQuoteFromBook"
  /\ call.avoidRepeat
  /\ call.misses >= 2
  /\ call.attempts < maxAttempts
  /\ call.quote = call.firstFresh
  /\ Cardinality(ServedOf(call.bookName)) >= 2

\* C19: a call never makes more than maxAttempts picks; a call with
\* avoidRepeat false that left its loop made exactly one; every call comes
\* to its end, and then with a quote of its population.
C19_DrawTerminates ==
  /\ [](/\ call.attempts <= maxAttempts
        /\ (call.pc \in {"picked", "done"} /\ ~call.avoidRepeat)
             => call.attempts = 1
        /\ call.pc = "done"
             => \E i \in 1..Len(call.pool) : call.pool[i] = call.quote)
  /\ <>(call.pc = "done")

\* a unique draw that returned after maxAttempts picks of served ids
C19_Witness ==
  /\ call.pc = "done"
  /\ call.avoidRepeat
  /\ call.attempts = maxAttempts
  /\ call.misses = maxAttempts

\* C20: the global served-set holds only ids of quotes of the corpus and
\* the served-set of a book only ids of quotes of that book; and in the
\* state a successful unique draw leaves, the quote it returned is a quote
\* of the corpus, for a book draw one of the book that the requested slug
\* was resolved to, and its id is in the served-set of that scope.
C20_ServedWithinScope ==
  /\ servedQuotes \subseteq Ids(quotesDatabase)
  /\ \A b \in DOMAIN servedQuotesByBook :
       servedQuotesByBook[b] \subseteq BookIds(b)
  /\ (resp.route = GlobalRoute /\ resp.status = 200 /\ resp.avoidRepeat)
       => /\ \E i \in 1..Len(quotesDatabase) : quotesDatabase[i] = resp.quote
          /\ resp.quote.id \in servedQuotes
  /\ (resp.route = BookRoute /\ resp.status = 200 /\ resp.avoidRepeat)
       => /\ \E i \in 1..Len(quotesDatabase) : quotesDatabase[i] = resp.quote
          /\ resp.quote.book = resp.book
          /\ Slug(resp.quote.book) = resp.bookSlug
          /\ resp.quote.id \in ServedOf(resp.book)

\* a unique draw from a book whose ids do not start at 0 that left two ids
\* in the book's served-set, while the global served-set holds another id
C20_Witness ==
  /\ resp.route = BookRoute
  /\ resp.status = 200
  /\ resp.avoidRepeat
  /\ 0 \notin BookIds(resp.book)
  /\ Cardinality(ServedOf(resp.book)) = 2
  /\ servedQuotes # {}
  /\ servedQuotes \cap ServedOf(resp.book) = {}

\* r answers a reset that named a slug and found its book
IsBookReset(r) == IsReset(r) /\ r.book # NoBook

\* C21: a reset that names the slug of a known book leaves the served-set
\* of the book it found empty, leaves the global served-set and the
\* served-set of every other book as they were and creates no tracker; the
\* global served-set goes from holding ids to empty only in a reset without
\* a book.
C21_BookResetFrame ==
  [][/\ (resp'.route = ResetRoute /\ resp'.bookSlug # NoBook
           /\ ~UnknownSlug(resp'.bookSlug))
          => /\ IsBookReset(resp')
             /\ resp'.book \in Range(booksList)
             /\ ServedIn(servedQuotesByBook', resp'.book) = {}
             /\ servedQuotes' = servedQuotes
             /\ DOMAIN servedQuotesByBook' = DOMAIN servedQuotesByBook
             /\ \A b \in Range(booksList) \ {resp'.book} :
                  ServedOf(b)' = ServedOf(b)
     /\ (servedQuotes # {} /\ servedQuotes' = {}) => IsResetAll(resp')]_vars

\* a book with a tracker just reset while the global served-set and the
\* served-set of another book hold ids
C21_Witness ==
  /\ IsBookReset(resp)
  /\ resp.book \in DOMAIN servedQuotesByBook
  /\ servedQuotesByBook[resp.book] = {}
  /\ servedQuotes # {}
  /\ \E b \in DOMAIN servedQuotesByBook :
       b # resp.book /\ servedQuotesByBook[b] # {}

\* C22: every book of booksList is reached through its own slug: a draw or
\* a reset addressed to the slug of book B is answered for B, a draw
\* returns a quote of B and (when unique) adds its id to B's served-set, a
\* reset empties B's served-set, and every entry of the statistics carries
\* a slug that leads back to the entry's own book.
C22_SlugReachesOwnBook ==
  [][\A i \in 1..Len(booksList) :
       LET B == booksList[i]
       IN /\ (resp'.route \in {BookRoute, ResetRoute}
                /\ resp'.bookSlug = Slug(B))
               => /\ resp'.status = 200
                  /\ resp'.book = B
                  /\ resp'.route = BookRoute
                       => /\ resp'.quote \in Range(BookQuotes(B))
                          /\ resp'.avoidRepeat
                               => resp'.quote.id
                                    \in ServedIn(servedQuotesByBook', B)
                  /\ resp'.route = ResetRoute
                       => ServedIn(servedQuotesByBook', B) = {}
          /\ resp'.route = StatsRoute
               => /\ resp'.stats.books[i].name = B
                  /\ FindBook(resp'.stats.books[i].slug) = B
                  /\ resp'.stats.books[i].served_quotes
                       = Cardinality(ServedOf(B))]_vars

============================================================================
